---------------------------- MODULE Spec2Model ----------------------------
(***************************************************************************)
(* Webhook delivery engine of app/integrations/webhook_manager.py:         *)
(* WebhookManager with its delivery queue, retry queue, delivery workers   *)
(* and retry worker.  All coroutines run on one asyncio event loop, so a   *)
(* stretch of code without a suspending await is one atomic action.        *)
(***************************************************************************)
EXTENDS Integers, Sequences, FiniteSets, TLC

(***************************************************************************)
(* Bounds of the model.                                                    *)
(***************************************************************************)
MaxDeliveries == 2      \* deliveries created over a run
NumWorkers == 2         \* num_workers passed to start()
TimeStep == 60          \* seconds the wall clock advances in one step
MaxTime == 180          \* last instant of the wall clock that is explored
ExamCap == 2            \* the count of examinations in one tick saturates here
MaxClock == 2           \* clock readings explored between two builds of a request
MaxRendered == 1        \* deliveries followed from their rendered request to their last attempt
MaxStarts == 3          \* start() calls that create tasks over a run

(***************************************************************************)
(* Program constants.                                                      *)
(***************************************************************************)
BackoffBase == 60       \* 60 * (2 ** (attempt_count - 1))
BackoffCap == 3600      \* min(..., 3600)
SleepSecs == 10         \* asyncio.sleep(10) of the retry worker
NoKey == -1             \* a key that is absent from a dict / a value None

RECURSIVE Pow2(_)
Pow2(n) == IF n <= 0 THEN 1 ELSE 2 * Pow2(n - 1)

Min(a, b) == IF a <= b THEN a ELSE b

(***************************************************************************)
(* WebhookStatus and WebhookEvent (app/db/models/enums.py).                *)
(***************************************************************************)
WebhookStatus == {"pending", "sending", "success", "failed", "retrying", "abandoned"}
WebhookEvent == {"case.created", "task.completed"}
Terminal == {"success", "abandoned"}

(***************************************************************************)
(* Webhook rows (app/db/models/webhook.py).  Two registered webhooks:      *)
(* 1 has no filters and no secret and allows two retries; 2 is scoped to   *)
(* organization 1, filters cases on status and tags, signs its requests    *)
(* and allows no retry.  retry_backoff is the column's default (60) on     *)
(* webhook 2 and 30 on webhook 1.                                          *)
(***************************************************************************)
WebhookIds == {1, 2}

Webhook(w) ==
    IF w = 1
    THEN [id |-> 1, events |-> {"case.created"},
          organization_filter |-> {},
          case_filter |-> [keys |-> {}, status |-> {}, severity |-> {}, tags |-> {}],
          secret |-> "", max_retries |-> 2, retry_backoff |-> 30]
    ELSE [id |-> 2, events |-> {"case.created"},
          organization_filter |-> {1},
          case_filter |-> [keys |-> {"status", "tags"}, status |-> {"open"},
                           severity |-> {}, tags |-> {"critical"}],
          secret |-> "k2", max_retries |-> 0, retry_backoff |-> 60]

(***************************************************************************)
(* event_data dicts handed to trigger_event.  org is                       *)
(* event_data['organization']['id'] (NoKey when absent); case is "absent"  *)
(* (no 'case' key), "none" (the key maps to None) or "dict"; json tells    *)
(* what json.dumps does with the dict: "ok", "mixed_keys" (dumps works     *)
(* but sort_keys=True raises TypeError) or "not_serializable".             *)
(***************************************************************************)
EventData(org, case, status, tags, json) ==
    [org |-> org, case |-> case, status |-> status, severity |-> "None",
     tags |-> tags, json |-> json]

EventDatas ==
    { EventData(1, "absent", "None", {}, "ok"),
      EventData(1, "dict", "open", {"critical"}, "ok"),
      EventData(1, "dict", "open", {"low"}, "ok"),
      EventData(2, "dict", "open", {"critical"}, "ok"),
      EventData(1, "none", "None", {}, "ok"),
      EventData(1, "dict", "open", {"critical"}, "mixed_keys"),
      EventData(1, "absent", "None", {}, "not_serializable") }

\* the 'attempt_count' entry of related_objects, NoKey when it has none
RelatedObjects == {NoKey, 0}

\* candidate lists: rows of a subscription lookup, no row twice
CandidateLists == { <<1>>, <<2>>, <<1, 2>>, <<2, 1>> }

VARIABLES
    running,          \* self.running
    enabled,          \* Webhook.enabled of each webhook row
    total_sent,       \* Webhook.total_sent of each webhook row
    total_failed,     \* Webhook.total_failed of each webhook row
    deliveries,       \* the delivery dicts created so far, by identity
    delivery_queue,   \* self.delivery_queue
    retry_queue,      \* self.retry_queue
    workers,          \* the delivery worker tasks: where each one stands
    retry_pc,         \* where the retry worker task stands
    wake_at,          \* instant at which the retry worker's sleep ends
    now,              \* the wall clock (time.time / datetime.now)
    trigger_raised,   \* did the last trigger_event call raise to its caller
    history,          \* per delivery: what the HTTP attempts did
    examined,         \* per delivery: times the retry worker took it in the tick under way
    p_webhook,        \* a webhook row handed to the matching / building functions
    p_event_data,     \* an event_data dict handed to them
    p_match,          \* what _matches_filters returned for the two
    p_outcome,        \* what the loop body of trigger_event did with the candidate
    p_clock,          \* the clock the builders read
    p_built,          \* the requests built so far for the two, with the build instant
    rendered,         \* per delivery followed with its request: the request as rendered at creation
    self_running,     \* self.running, where start() and stop() interleave
    self_workers,     \* self.workers: the list of task handles
    tasks,            \* every task start() may create: "new", "alive", "cancelled" or "done"
    started,          \* start() calls that created tasks so far
    stop_pc,          \* the stop() call under way: "idle" or "gather"
    awaited           \* the tasks the gather of that stop() call waits for

mvars == <<running, enabled, total_sent, total_failed, deliveries, delivery_queue, retry_queue, workers,
           retry_pc, wake_at, now, trigger_raised, history, examined>>

pvars == <<p_webhook, p_event_data, p_match, p_outcome, p_clock, p_built>>

\* the variables of the other specifications of this module
lvars == <<self_running, self_workers, tasks, started, stop_pc, awaited>>

ovars == <<pvars, rendered, lvars>>

\* the statistics columns of the webhook rows: no statement of the manager
\* assigns them
stats == <<total_sent, total_failed>>

vars == <<mvars, ovars>>

DeliveryIds == 1..Len(deliveries)

SeqToSet(s) == { s[i] : i \in 1..Len(s) }

InFlight == { workers[w].delivery : w \in { x \in 1..NumWorkers : workers[x].pc = "http" } }

\* the tasks one start() call creates: num_workers delivery workers and the
\* retry worker
TasksPerStart == NumWorkers + 1

TaskIds == 1..(MaxStarts * TasksPerStart)

\* WebhookManager.__init__, as far as start() and stop() go
init_lifecycle ==
    /\ self_running = FALSE
    /\ self_workers = <<>>
    /\ tasks = [t \in TaskIds |-> "new"]
    /\ started = 0
    /\ stop_pc = "idle"
    /\ awaited = {}

(***************************************************************************)
(* WebhookManager.__init__                                                 *)
(***************************************************************************)
init_manager ==
    /\ running = FALSE
    /\ enabled = [w \in WebhookIds |-> TRUE]
    /\ total_sent = [w \in WebhookIds |-> 0]
    /\ total_failed = [w \in WebhookIds |-> 0]
    /\ deliveries = <<>>
    /\ delivery_queue = <<>>
    /\ retry_queue = <<>>
    /\ workers = [w \in 1..NumWorkers |-> [pc |-> "off", delivery |-> 0]]
    /\ retry_pc = "off"
    /\ wake_at = 0
    /\ now = 0
    /\ trigger_raised = FALSE
    /\ history = <<>>
    /\ examined = [d \in 1..MaxDeliveries |-> 0]

Init ==
    /\ init_manager
    /\ p_webhook = Webhook(1)
    /\ p_event_data = EventData(1, "absent", "None", {}, "ok")
    /\ p_match = "none"
    /\ p_outcome = "none"
    /\ p_clock = 0
    /\ p_built = <<>>
    /\ rendered = <<>>
    /\ init_lifecycle

(***************************************************************************)
(* _matches_filters: "true", "false", or "raise" when the evaluation       *)
(* raises (None.get on a 'case' key that maps to None).                    *)
(***************************************************************************)
matches_filters(webhook, event_data) ==
    IF webhook.organization_filter # {} /\ event_data.org \notin webhook.organization_filter
    THEN "false"
    ELSE IF webhook.case_filter.keys # {} /\ event_data.case # "absent"
    THEN IF event_data.case = "none"
            /\ webhook.case_filter.keys \cap {"status", "severity", "tags"} # {}
         THEN "raise"
         ELSE IF "status" \in webhook.case_filter.keys
                 /\ event_data.status \notin webhook.case_filter.status
         THEN "false"
         ELSE IF "severity" \in webhook.case_filter.keys
                 /\ event_data.severity \notin webhook.case_filter.severity
         THEN "false"
         ELSE IF "tags" \in webhook.case_filter.keys
                 /\ webhook.case_filter.tags \cap event_data.tags = {}
         THEN "false"
         ELSE "true"
    ELSE "true"

(***************************************************************************)
(* _build_headers / _build_payload: does the build raise.                  *)
(***************************************************************************)
build_headers_raises(webhook, event_data) ==
    webhook.secret # "" /\ event_data.json # "ok"

build_payload_raises(webhook, event_data) ==
    event_data.json = "not_serializable"

(***************************************************************************)
(* _create_delivery: the delivery dict.  It has no 'attempt_count' and no  *)
(* 'next_retry_at' key unless related_objects brings one.                  *)
(***************************************************************************)
create_delivery(webhook, event_type, related_objects) ==
    [webhook_id |-> webhook.id,
     event_type |-> event_type,
     status |-> "pending",
     max_attempts |-> webhook.max_retries + 1,
     attempt_count |-> related_objects,
     next_retry_at |-> NoKey]

NoHistory == [attempts |-> 0, failures |-> 0, last |-> "none"]

\* the loop body of trigger_event without the `if not webhook.enabled` test
candidate_outcome_ignores_enabled(webhook, is_enabled, event_type, event_data) ==
    IF event_type \notin webhook.events
    THEN "skip"
    ELSE IF matches_filters(webhook, event_data) = "raise"
    THEN "raise"
    ELSE IF matches_filters(webhook, event_data) = "false"
    THEN "skip"
    ELSE IF build_headers_raises(webhook, event_data)
            \/ build_payload_raises(webhook, event_data)
    THEN "build_error"
    ELSE "create"

(***************************************************************************)
(* trigger_event, the loop body for one candidate: "skip" (continue),      *)
(* "raise" (_matches_filters raises, outside the try), "build_error"       *)
(* (_create_delivery raises, caught and logged) or "create" (a delivery    *)
(* is created and queued).                                                 *)
(***************************************************************************)
candidate_outcome(webhook, is_enabled, event_type, event_data) ==
    IF event_type \notin webhook.events
    THEN "skip"
    ELSE IF ~is_enabled
    THEN "skip"
    ELSE IF matches_filters(webhook, event_data) = "raise"
    THEN "raise"
    ELSE IF matches_filters(webhook, event_data) = "false"
    THEN "skip"
    ELSE IF build_headers_raises(webhook, event_data)
            \/ build_payload_raises(webhook, event_data)
    THEN "build_error"
    ELSE "create"

(***************************************************************************)
(* trigger_event: the loop over the candidate webhooks.  ds and q are the  *)
(* deliveries and the delivery queue so far.                               *)
(***************************************************************************)
RECURSIVE trigger_loop(_, _, _, _, _, _)
trigger_loop(webhooks, event_type, event_data, related_objects, ds, q) ==
    IF webhooks = <<>>
    THEN [deliveries |-> ds, queue |-> q, raised |-> FALSE]
    ELSE LET webhook == Webhook(Head(webhooks))
             rest == Tail(webhooks)
             outcome == candidate_outcome(webhook, enabled[webhook.id], event_type, event_data)
         IN  IF outcome = "raise"
             THEN [deliveries |-> ds, queue |-> q, raised |-> TRUE]
             ELSE IF outcome = "create"
             THEN trigger_loop(rest, event_type, event_data, related_objects,
                      Append(ds, create_delivery(webhook, event_type, related_objects)),
                      Append(q, Len(ds) + 1))
             ELSE trigger_loop(rest, event_type, event_data, related_objects, ds, q)

\* the event loop runs other coroutines only while the retry worker is suspended
LoopFree == retry_pc # "loop"

trigger_event(event_type, event_data, webhooks, related_objects) ==
    /\ UNCHANGED <<ovars, stats>>
    /\ LoopFree
    /\ Len(deliveries) + Len(webhooks) <= MaxDeliveries
    /\ LET r == trigger_loop(webhooks, event_type, event_data, related_objects,
                             deliveries, delivery_queue)
       IN  /\ deliveries' = r.deliveries
           /\ delivery_queue' = r.queue
           /\ trigger_raised' = r.raised
           /\ history' = history \o [i \in 1..(Len(r.deliveries) - Len(deliveries)) |-> NoHistory]
    /\ UNCHANGED <<running, enabled, retry_queue, workers, retry_pc, wake_at, now, examined>>

(***************************************************************************)
(* start / stop                                                            *)
(***************************************************************************)
start ==
    /\ UNCHANGED <<ovars, stats>>
    /\ LoopFree
    /\ ~running
    /\ running' = TRUE
    /\ workers' = [w \in 1..NumWorkers |-> [pc |-> "get", delivery |-> 0]]
    /\ retry_pc' = "sleep"
    /\ wake_at' = now + SleepSecs
    /\ UNCHANGED <<enabled, deliveries, delivery_queue, retry_queue, now,
                   trigger_raised, history, examined>>

\* a stop() that throws away what the queues hold
stop_clears_queues ==
    /\ UNCHANGED <<ovars, stats>>
    /\ LoopFree
    /\ running
    /\ running' = FALSE
    /\ workers' = [w \in 1..NumWorkers |-> [pc |-> "off", delivery |-> 0]]
    /\ retry_pc' = "off"
    /\ wake_at' = 0
    /\ delivery_queue' = <<>>
    /\ retry_queue' = <<>>
    /\ UNCHANGED <<enabled, deliveries, now, trigger_raised, history, examined>>

\* worker.cancel() raises CancelledError at the await each task is suspended
\* in; neither worker catches it, so each task ends where it stands
stop ==
    /\ UNCHANGED <<ovars, stats>>
    /\ LoopFree
    /\ running
    /\ running' = FALSE
    /\ workers' = [w \in 1..NumWorkers |-> [pc |-> "off", delivery |-> 0]]
    /\ retry_pc' = "off"
    /\ wake_at' = 0
    /\ UNCHANGED <<enabled, deliveries, delivery_queue, retry_queue, now,
                   trigger_raised, history, examined>>

(***************************************************************************)
(* An administrator enables or disables a webhook row.                     *)
(***************************************************************************)
set_enabled(w, b) ==
    /\ UNCHANGED <<ovars, stats>>
    /\ LoopFree
    /\ enabled[w] # b
    /\ enabled' = [enabled EXCEPT ![w] = b]
    /\ UNCHANGED <<running, deliveries, delivery_queue, retry_queue, workers,
                   retry_pc, wake_at, now, trigger_raised, history, examined>>

(***************************************************************************)
(* The wall clock.                                                         *)
(***************************************************************************)
advance_time ==
    /\ UNCHANGED <<ovars, stats>>
    /\ now + TimeStep <= MaxTime
    /\ now' = now + TimeStep
    /\ UNCHANGED <<running, enabled, deliveries, delivery_queue, retry_queue, workers,
                   retry_pc, wake_at, trigger_raised, history, examined>>

\* a get that hands out the head of the queue and leaves it there
queue_peek(q) == q

\* the delivery queue after self.delivery_queue.get() returned its head
queue_get(q) == Tail(q)

(***************************************************************************)
(* _delivery_worker: delivery_queue.get() returns a delivery.  The worker  *)
(* tasks run the same coroutine and differ in the name they log, and the   *)
(* queue serves one waiting getter per item: the item goes to the first    *)
(* worker that waits.                                                      *)
(***************************************************************************)
delivery_worker_get(w) ==
    /\ UNCHANGED <<ovars, stats>>
    /\ LoopFree
    /\ workers[w].pc = "get"
    /\ \A v \in 1..(w - 1) : workers[v].pc # "get"
    /\ delivery_queue # <<>>
    /\ workers' = [workers EXCEPT ![w] = [pc |-> "http", delivery |-> Head(delivery_queue)]]
    /\ delivery_queue' = queue_get(delivery_queue)
    /\ history' = [history EXCEPT ![Head(delivery_queue)].attempts = @ + 1]
    /\ UNCHANGED <<running, enabled, deliveries, retry_queue, retry_pc, wake_at, now,
                   trigger_raised, examined>>

(***************************************************************************)
(* _update_delivery_success: logs, changes nothing on the delivery.        *)
(***************************************************************************)
update_delivery_success(ds, d, status_code) == ds

(***************************************************************************)
(* _deliver_webhook, a response arrives: whatever its status code, the     *)
(* body of the async with runs _update_delivery_success.                   *)
(***************************************************************************)
deliver_webhook_response(w, status_code) ==
    /\ UNCHANGED <<ovars, stats>>
    /\ LoopFree
    /\ workers[w].pc = "http"
    /\ LET d == workers[w].delivery
       IN  /\ deliveries' = update_delivery_success(deliveries, d, status_code)
           /\ history' = [history EXCEPT ![d].last = IF status_code < 400 THEN "ok" ELSE "bad",
                                         ![d].failures = IF status_code < 400 THEN @ ELSE @ + 1]
    /\ workers' = [workers EXCEPT ![w] = [pc |-> "get", delivery |-> 0]]
    /\ UNCHANGED <<running, enabled, delivery_queue, retry_queue, retry_pc, wake_at, now,
                   trigger_raised, examined>>

\* _update_delivery_failure that schedules a retry whatever the attempt count
update_delivery_failure_always_retry(dl, t) ==
    IF dl.attempt_count = NoKey
    THEN [delivery |-> dl, retry |-> FALSE, raised |-> TRUE]
    ELSE LET n == dl.attempt_count + 1
         IN  IF n < dl.max_attempts
             THEN [delivery |-> [dl EXCEPT !.attempt_count = n,
                                           !.next_retry_at =
                                               t + Min(BackoffBase * Pow2(n - 1), BackoffCap),
                                           !.status = "retrying"],
                   retry |-> TRUE, raised |-> FALSE]
             ELSE [delivery |-> [dl EXCEPT !.attempt_count = n,
                                           !.next_retry_at =
                                               t + Min(BackoffBase * Pow2(n - 1), BackoffCap),
                                           !.status = "abandoned"],
                   retry |-> TRUE, raised |-> FALSE]

\* _update_delivery_failure that compares with <= instead of <
update_delivery_failure_off_by_one(dl, t) ==
    IF dl.attempt_count = NoKey
    THEN [delivery |-> dl, retry |-> FALSE, raised |-> TRUE]
    ELSE LET n == dl.attempt_count + 1
         IN  IF n <= dl.max_attempts
             THEN [delivery |-> [dl EXCEPT !.attempt_count = n,
                                           !.next_retry_at =
                                               t + Min(BackoffBase * Pow2(n - 1), BackoffCap),
                                           !.status = "retrying"],
                   retry |-> TRUE, raised |-> FALSE]
             ELSE [delivery |-> [dl EXCEPT !.attempt_count = n, !.status = "abandoned"],
                   retry |-> FALSE, raised |-> FALSE]

\* _update_delivery_failure that schedules the retry and leaves the status
update_delivery_failure_keeps_status(dl, t) ==
    IF dl.attempt_count = NoKey
    THEN [delivery |-> dl, retry |-> FALSE, raised |-> TRUE]
    ELSE LET n == dl.attempt_count + 1
         IN  IF n < dl.max_attempts
             THEN [delivery |-> [dl EXCEPT !.attempt_count = n,
                                           !.next_retry_at =
                                               t + Min(BackoffBase * Pow2(n - 1), BackoffCap)],
                   retry |-> TRUE, raised |-> FALSE]
             ELSE [delivery |-> [dl EXCEPT !.attempt_count = n, !.status = "abandoned"],
                   retry |-> FALSE, raised |-> FALSE]

\* _update_delivery_failure that stamps the delivery-id header again
update_delivery_failure_restamps(dl, t) ==
    IF dl.attempt_count = NoKey
    THEN [delivery |-> dl, retry |-> FALSE, raised |-> TRUE]
    ELSE LET n == dl.attempt_count + 1
         IN  IF n < dl.max_attempts
             THEN [delivery |-> [dl EXCEPT !.attempt_count = n,
                                           !.next_retry_at =
                                               t + Min(BackoffBase * Pow2(n - 1), BackoffCap),
                                           !.status = "retrying",
                                           !.request_headers =
                                               [@ EXCEPT !["X-CHawk-Delivery"] = <<ToString(t)>>]],
                   retry |-> TRUE, raised |-> FALSE]
             ELSE [delivery |-> [dl EXCEPT !.attempt_count = n, !.status = "abandoned"],
                   retry |-> FALSE, raised |-> FALSE]

(***************************************************************************)
(* _update_delivery_failure on delivery dict dl at instant t: the dict     *)
(* afterwards, whether it goes to the retry queue, and whether the         *)
(* function raised (KeyError on a dict without 'attempt_count').           *)
(***************************************************************************)
update_delivery_failure(dl, t) ==
    IF dl.attempt_count = NoKey
    THEN [delivery |-> dl, retry |-> FALSE, raised |-> TRUE]
    ELSE LET n == dl.attempt_count + 1
         IN  IF n < dl.max_attempts
             THEN [delivery |-> [dl EXCEPT !.attempt_count = n,
                                           !.next_retry_at =
                                               t + Min(BackoffBase * Pow2(n - 1), BackoffCap),
                                           !.status = "retrying"],
                   retry |-> TRUE, raised |-> FALSE]
             ELSE [delivery |-> [dl EXCEPT !.attempt_count = n, !.status = "abandoned"],
                   retry |-> FALSE, raised |-> FALSE]

\* a worker whose loop has no `except Exception` ends with the exception
worker_dies_on_exception(raised) ==
    IF raised THEN [pc |-> "off", delivery |-> 0] ELSE [pc |-> "get", delivery |-> 0]

\* _delivery_worker after _deliver_webhook returned or raised: `except
\* Exception` logs and the while loop goes back to delivery_queue.get()
worker_after_attempt(raised) == [pc |-> "get", delivery |-> 0]

(***************************************************************************)
(* _deliver_webhook, the request raises (transport error, timeout): the    *)
(* except branch runs _update_delivery_failure; an exception of that one   *)
(* is caught and logged by _delivery_worker.                               *)
(***************************************************************************)
deliver_webhook_error(w) ==
    /\ UNCHANGED <<ovars, stats>>
    /\ LoopFree
    /\ workers[w].pc = "http"
    /\ LET d == workers[w].delivery
           r == update_delivery_failure(deliveries[d], now)
       IN  /\ deliveries' = [deliveries EXCEPT ![d] = r.delivery]
           /\ retry_queue' = IF r.retry THEN Append(retry_queue, d) ELSE retry_queue
           /\ history' = [history EXCEPT ![d].last = "error", ![d].failures = @ + 1]
           /\ workers' = [workers EXCEPT ![w] = worker_after_attempt(r.raised)]
    /\ UNCHANGED <<running, enabled, delivery_queue, retry_pc, wake_at, now,
                   trigger_raised, examined>>

(***************************************************************************)
(* _retry_worker: asyncio.sleep(10) returns.                               *)
(***************************************************************************)
retry_worker_wake ==
    /\ UNCHANGED <<ovars, stats>>
    /\ retry_pc = "sleep"
    /\ now >= wake_at
    /\ retry_pc' = "loop"
    /\ examined' = [d \in 1..MaxDeliveries |-> 0]
    /\ UNCHANGED <<running, enabled, deliveries, delivery_queue, retry_queue, workers,
                   wake_at, now, trigger_raised, history>>

\* a test that takes every scheduled Delivery as due
retry_due_ignores_time(dl, t) == dl.next_retry_at # NoKey

\* if delivery.get('next_retry_at') and datetime.now(timezone.utc) >= delivery['next_retry_at']
retry_due(dl, t) == dl.next_retry_at # NoKey /\ t >= dl.next_retry_at

\* a pass that puts the Delivery back on the retry queue even when it moves
\* it to the delivery queue
retry_requeue_keeps_due(rq, d, due) == Append(Tail(rq), d)

\* the retry queue after the pass that took delivery d off its head
retry_requeue(rq, d, due) == IF due THEN Tail(rq) ELSE Append(Tail(rq), d)

(***************************************************************************)
(* _retry_worker: one pass of `while not self.retry_queue.empty()`.  No    *)
(* await of the pass suspends (both queues are unbounded), so the event    *)
(* loop runs nothing else until the retry queue is empty.                  *)
(***************************************************************************)
retry_worker_step ==
    /\ UNCHANGED <<ovars, stats>>
    /\ retry_pc = "loop"
    /\ IF retry_queue = <<>>
       THEN /\ retry_pc' = "sleep"
            /\ wake_at' = now + SleepSecs
            /\ examined' = [d \in 1..MaxDeliveries |-> 0]
            /\ UNCHANGED <<deliveries, delivery_queue, retry_queue>>
       ELSE LET d == Head(retry_queue)
            IN  /\ examined' = [examined EXCEPT ![d] = Min(@ + 1, ExamCap)]
                /\ UNCHANGED <<retry_pc, wake_at>>
                /\ retry_queue' = retry_requeue(retry_queue, d, retry_due(deliveries[d], now))
                /\ IF retry_due(deliveries[d], now)
                   THEN /\ deliveries' = [deliveries EXCEPT ![d].status = "pending"]
                        /\ delivery_queue' = Append(delivery_queue, d)
                   ELSE UNCHANGED <<deliveries, delivery_queue>>
    /\ UNCHANGED <<running, enabled, workers, now, trigger_raised, history>>

Next ==
    \/ \E event_type \in WebhookEvent, event_data \in EventDatas,
          webhooks \in CandidateLists, related_objects \in RelatedObjects :
          trigger_event(event_type, event_data, webhooks, related_objects)
    \/ start
    \/ stop
    \/ \E w \in WebhookIds, b \in BOOLEAN : set_enabled(w, b)
    \/ advance_time
    \/ \E w \in 1..NumWorkers : delivery_worker_get(w)
    \/ \E w \in 1..NumWorkers, status_code \in {200, 500} : deliver_webhook_response(w, status_code)
    \/ \E w \in 1..NumWorkers : deliver_webhook_error(w)
    \/ retry_worker_wake
    \/ retry_worker_step

Spec == Init /\ [][Next]_vars

(***************************************************************************)
(* The same program under fair scheduling: the event loop runs every task  *)
(* that is ready, every HTTP attempt returns a response or raises within   *)
(* its 30 s timeout, and the wall clock keeps going.                       *)
(***************************************************************************)
FairSpec ==
    /\ Spec
    /\ \A w \in 1..NumWorkers : WF_vars(delivery_worker_get(w))
    /\ \A w \in 1..NumWorkers :
          WF_vars(deliver_webhook_error(w)
                  \/ \E status_code \in {200, 500} : deliver_webhook_response(w, status_code))
    /\ WF_vars(retry_worker_wake)
    /\ WF_vars(retry_worker_step)
    /\ WF_vars(advance_time)

----------------------------------------------------------------------------
(***************************************************************************)
(* The matching and building functions on their own.  A text (a header     *)
(* value, a JSON document) is the sequence of its tokens.                  *)
(***************************************************************************)
CaseFilter(keys, tags) ==
    [keys |-> keys,
     status |-> IF "status" \in keys THEN {"open"} ELSE {},
     severity |-> IF "severity" \in keys THEN {"high"} ELSE {},
     tags |-> tags]

\* Webhook.case_filter values: {}, one key each, an empty tag list, two keys
CaseFilters ==
    { CaseFilter({}, {}), CaseFilter({"status"}, {}), CaseFilter({"severity"}, {}),
      CaseFilter({"tags"}, {}), CaseFilter({"tags"}, {"critical"}),
      CaseFilter({"status", "tags"}, {"critical"}) }

NoHeaders == [h \in {} |-> <<>>]

\* Webhook.custom_headers values
CustomHeaderSets ==
    { NoHeaders,
      [h \in {"X-Custom"} |-> <<"v">>],
      [h \in {"X-CHawk-Event"} |-> <<"spoofed">>],
      [h \in {"X-CHawk-Delivery"} |-> <<"spoofed">>],
      [h \in {"X-CHawk-Signature"} |-> <<"spoofed">>] }

WebhookRow(is_enabled, events, organization_filter, case_filter, secret, custom_headers) ==
    [id |-> 1, uuid |-> "uuid-1", name |-> "hook", url |-> "https://hook.example",
     enabled |-> is_enabled, events |-> events,
     organization_filter |-> organization_filter, case_filter |-> case_filter,
     secret |-> secret, custom_headers |-> custom_headers, max_retries |-> 0]

MatchWebhooks ==
    { WebhookRow(e, ev, o, cf, "", NoHeaders) :
        e \in BOOLEAN, ev \in {{"case.created"}, {"task.completed"}},
        o \in {{}, {1}}, cf \in CaseFilters }

MatchEventDatas ==
    { [org |-> o, case |-> c, status |-> st, severity |-> sv, tags |-> tg, json |-> js] :
        o \in {1, 2}, c \in {"absent", "none", "dict"}, st \in {"None", "open"},
        sv \in {"None", "high"}, tg \in {{}, {"low"}, {"critical"}},
        js \in {"ok", "not_serializable"} }

BuildWebhooks ==
    { WebhookRow(TRUE, {"case.created"}, {}, CaseFilter({}, {}), sec, ch) :
        sec \in {"", "k"}, ch \in CustomHeaderSets }

BuildEventDatas ==
    { [org |-> 1, case |-> c, status |-> "open", severity |-> "None", tags |-> {"low"},
       json |-> js] :
        c \in {"absent", "dict"}, js \in {"ok", "mixed_keys", "not_serializable"} }

(***************************************************************************)
(* trigger_event applied to one candidate: what _matches_filters returns   *)
(* and what the loop body does.                                            *)
(***************************************************************************)
match_apply ==
    /\ p_outcome = "none"
    /\ p_match' = matches_filters(p_webhook, p_event_data)
    /\ p_outcome' = candidate_outcome(p_webhook, p_webhook.enabled, "case.created", p_event_data)
    /\ UNCHANGED <<mvars, rendered, lvars, p_webhook, p_event_data, p_clock, p_built>>

MatchInit ==
    /\ init_manager
    /\ p_webhook \in MatchWebhooks
    /\ p_event_data \in MatchEventDatas
    /\ p_match = "none"
    /\ p_outcome = "none"
    /\ p_clock = 0
    /\ p_built = <<>>
    /\ rendered = <<>>
    /\ init_lifecycle

MatchSpec == MatchInit /\ [][match_apply]_vars

\* the tokens of an event_data dict
event_tokens(event_data) ==
    <<"organization", ToString(event_data.org)>>
    \o (IF event_data.case = "dict"
        THEN <<"case", "status", event_data.status, "tags", ToString(event_data.tags)>>
        ELSE <<>>)

\* json.dumps: indent=2 puts every member on a line of its own, the default
\* layout puts the document on one line
json_dumps(tokens, indent) ==
    IF indent THEN <<"{", "\n">> \o tokens \o <<"\n", "}">> ELSE <<"{">> \o tokens \o <<"}">>

(***************************************************************************)
(* _generate_signature: 'sha256=' and the HMAC-SHA256 hex digest, which is *)
(* determined by the secret and the payload.                               *)
(***************************************************************************)
generate_signature(secret, payload) == <<"sha256=", "hmac", secret>> \o payload

\* dict.update
dict_update(a, b) ==
    [h \in (DOMAIN a) \cup (DOMAIN b) |-> IF h \in DOMAIN b THEN b[h] ELSE a[h]]

(***************************************************************************)
(* _build_headers at clock reading t                                       *)
(***************************************************************************)
build_headers(webhook, event_data, t) ==
    LET headers ==
            dict_update(
                [h \in {"Content-Type", "User-Agent", "X-CHawk-Event", "X-CHawk-Delivery"} |->
                    CASE h = "Content-Type" -> <<"application/json">>
                      [] h = "User-Agent" -> <<"CHawk-Webhook/1.0">>
                      [] h = "X-CHawk-Event" -> <<"">>
                      [] h = "X-CHawk-Delivery" -> <<ToString(t)>>],
                webhook.custom_headers)
    IN  IF webhook.secret # ""
        THEN dict_update(headers,
                 [h \in {"X-CHawk-Signature"} |->
                     generate_signature(webhook.secret,
                                        json_dumps(event_tokens(event_data), FALSE))])
        ELSE headers

(***************************************************************************)
(* _build_payload at clock reading t                                       *)
(***************************************************************************)
build_payload(webhook, event_type, event_data, t) ==
    json_dumps(<<"event", event_type, "timestamp", ToString(t),
                 "webhook", webhook.uuid, webhook.name, "data">>
               \o event_tokens(event_data), TRUE)

\* the request fields of the dict of _create_delivery
build_request(webhook, event_type, event_data, t) ==
    [request_url |-> webhook.url,
     request_method |-> "POST",
     request_headers |-> build_headers(webhook, event_data, t),
     request_body |-> build_payload(webhook, event_type, event_data, t)]

(***************************************************************************)
(* _create_delivery builds the request of the webhook and the event.       *)
(***************************************************************************)
build_apply ==
    /\ Len(p_built) < 2
    /\ IF build_headers_raises(p_webhook, p_event_data)
          \/ build_payload_raises(p_webhook, p_event_data)
       THEN /\ p_outcome = "none"
            /\ p_outcome' = "build_error"
            /\ UNCHANGED p_built
       ELSE /\ p_built' = Append(p_built,
                              [request |-> build_request(p_webhook, "case.created",
                                                         p_event_data, p_clock),
                               at |-> p_clock])
            /\ UNCHANGED p_outcome
    /\ UNCHANGED <<mvars, rendered, lvars, p_webhook, p_event_data, p_match, p_clock>>

\* time passes
build_tick ==
    /\ p_clock < MaxClock
    /\ p_clock' = p_clock + 1
    /\ UNCHANGED <<mvars, rendered, lvars, p_webhook, p_event_data, p_match, p_outcome, p_built>>

BuildInit ==
    /\ init_manager
    /\ p_webhook \in BuildWebhooks
    /\ p_event_data \in BuildEventDatas
    /\ p_match = "none"
    /\ p_outcome = "none"
    /\ p_clock = 0
    /\ p_built = <<>>
    /\ rendered = <<>>
    /\ init_lifecycle

BuildNext == build_apply \/ build_tick

BuildSpec == BuildInit /\ [][BuildNext]_vars

----------------------------------------------------------------------------
(***************************************************************************)
(* One Delivery followed from its creation, with the request fields of its *)
(* dict, through the workers and the retry worker.  The delivery dict is   *)
(* the one of _create_delivery in full; the actions of the workers are     *)
(* those above.                                                            *)
(***************************************************************************)
\* webhook rows with a secret or without, with custom headers or without,
\* that allow two retries
RequestWebhooks == { [row EXCEPT !.max_retries = 2] : row \in BuildWebhooks }

\* delivery_data of _create_delivery at clock reading t
delivery_data(webhook, event_type, event_data, related_objects, t) ==
    create_delivery(webhook, event_type, related_objects)
        @@ build_request(webhook, event_type, event_data, t)

\* what _deliver_webhook hands to session.request for the delivery dict dl
request_sent(dl) ==
    [method |-> dl.request_method, url |-> dl.request_url,
     headers |-> dl.request_headers, data |-> dl.request_body]

(***************************************************************************)
(* trigger_event with one candidate row: the loop body, with the dict of   *)
(* _create_delivery in full.                                               *)
(***************************************************************************)
trigger_event_row(event_type, event_data, webhook, related_objects) ==
    /\ LoopFree
    /\ Len(deliveries) < MaxRendered
    /\ LET outcome == candidate_outcome(webhook, webhook.enabled, event_type, event_data)
           dl == delivery_data(webhook, event_type, event_data, related_objects, now)
       IN  IF outcome = "create"
           THEN /\ deliveries' = Append(deliveries, dl)
                /\ delivery_queue' = Append(delivery_queue, Len(deliveries) + 1)
                /\ history' = Append(history, NoHistory)
                /\ rendered' = Append(rendered, request_sent(dl))
                /\ trigger_raised' = FALSE
           ELSE /\ trigger_raised' = (outcome = "raise")
                /\ UNCHANGED <<deliveries, delivery_queue, history, rendered>>
    /\ UNCHANGED <<running, enabled, retry_queue, workers, retry_pc, wake_at, now, examined>>
    /\ UNCHANGED <<pvars, lvars, stats>>

RequestNext ==
    \/ \E event_data \in BuildEventDatas, webhook \in RequestWebhooks,
          related_objects \in RelatedObjects :
          trigger_event_row("case.created", event_data, webhook, related_objects)
    \/ start
    \/ stop
    \/ advance_time
    \/ \E w \in 1..NumWorkers : delivery_worker_get(w)
    \/ \E w \in 1..NumWorkers, status_code \in {200, 500} : deliver_webhook_response(w, status_code)
    \/ \E w \in 1..NumWorkers : deliver_webhook_error(w)
    \/ retry_worker_wake
    \/ retry_worker_step

RequestSpec == Init /\ [][RequestNext]_vars

----------------------------------------------------------------------------
(***************************************************************************)
(* start() and stop() called from several coroutines.  start() has no      *)
(* await and is one step.  stop() suspends in `await asyncio.gather(...)`  *)
(* until the tasks it cancelled have ended, and other coroutines, a        *)
(* start() among them, run meanwhile.  What the tasks do with deliveries   *)
(* plays no part here: a task is alive, cancelled and not yet ended, or    *)
(* done.  One stop() call is under way at a time.                          *)
(***************************************************************************)
\* the tasks the next start() call creates
NewTasks == (started * TasksPerStart + 1)..((started + 1) * TasksPerStart)

\* the tasks that have not ended
Live == { t \in TaskIds : tasks[t] \in {"alive", "cancelled"} }

\* start(): returns at once when self.running, else sets it and appends the
\* new tasks to self.workers
start_tasks ==
    /\ ~self_running
    /\ started < MaxStarts
    /\ self_running' = TRUE
    /\ tasks' = [t \in TaskIds |-> IF t \in NewTasks THEN "alive" ELSE tasks[t]]
    /\ self_workers' = self_workers \o [i \in 1..TasksPerStart |-> started * TasksPerStart + i]
    /\ started' = started + 1
    /\ UNCHANGED <<stop_pc, awaited>>
    /\ UNCHANGED <<mvars, pvars, rendered>>

\* stop() up to its await: clears self.running, cancels every task of
\* self.workers and gathers them.  gather of no task is done at once, and
\* stop() then goes on to clear the list and returns without suspending.
stop_cancel ==
    /\ stop_pc = "idle"
    /\ self_running' = FALSE
    /\ tasks' = [t \in TaskIds |->
                    IF t \in SeqToSet(self_workers) /\ tasks[t] = "alive"
                    THEN "cancelled" ELSE tasks[t]]
    /\ IF self_workers = <<>>
       THEN UNCHANGED <<stop_pc, awaited, self_workers>>
       ELSE /\ stop_pc' = "gather"
            /\ awaited' = SeqToSet(self_workers)
            /\ UNCHANGED self_workers
    /\ UNCHANGED started
    /\ UNCHANGED <<mvars, pvars, rendered>>

\* a cancelled task: CancelledError is raised at the await it is suspended
\* in, no handler of the worker catches it, the task ends
task_cancelled(t) ==
    /\ tasks[t] = "cancelled"
    /\ tasks' = [tasks EXCEPT ![t] = "done"]
    /\ UNCHANGED <<self_running, self_workers, started, stop_pc, awaited>>
    /\ UNCHANGED <<mvars, pvars, rendered>>

\* a task that was not cancelled comes back to `while self.running` (its
\* wait_for or its sleep returned), finds it false and returns
task_returns(t) ==
    /\ tasks[t] = "alive"
    /\ ~self_running
    /\ tasks' = [tasks EXCEPT ![t] = "done"]
    /\ UNCHANGED <<self_running, self_workers, started, stop_pc, awaited>>
    /\ UNCHANGED <<mvars, pvars, rendered>>

\* stop() after its await: every gathered task has ended; self.workers.clear()
stop_return ==
    /\ stop_pc = "gather"
    /\ \A t \in awaited : tasks[t] = "done"
    /\ self_workers' = <<>>
    /\ stop_pc' = "idle"
    /\ awaited' = {}
    /\ UNCHANGED <<self_running, tasks, started>>
    /\ UNCHANGED <<mvars, pvars, rendered>>

LifecycleNext ==
    \/ start_tasks
    \/ stop_cancel
    \/ \E t \in TaskIds : task_cancelled(t)
    \/ \E t \in TaskIds : task_returns(t)
    \/ stop_return

LifecycleSpec == Init /\ [][LifecycleNext]_vars

----------------------------------------------------------------------------
(***************************************************************************)
(* Properties                                                              *)
(***************************************************************************)
Queued == SeqToSet(delivery_queue)
Scheduled == SeqToSet(retry_queue)
AtRest(d) == d \notin Queued /\ d \notin Scheduled /\ d \notin InFlight

\* C1: every created Delivery is in the delivery queue, in flight at a
\* worker, in the retry queue, or has status success or abandoned.
NoDeliveryLost ==
    \A d \in DeliveryIds :
        \/ d \in Queued
        \/ d \in InFlight
        \/ d \in Scheduled
        \/ deliveries[d].status \in Terminal

\* C2: once a Delivery has status success or abandoned, no step changes its
\* status and it is on neither queue afterwards.
TerminalIsFinal ==
    [][\A d \in DeliveryIds :
          deliveries[d].status \in Terminal
          => /\ deliveries'[d].status = deliveries[d].status
             /\ d \notin SeqToSet(delivery_queue')
             /\ d \notin SeqToSet(retry_queue')]_vars

\* C2 witness: a Delivery is abandoned while the retry worker is in a tick
\* with another Delivery scheduled.
TerminalIsFinalWitness ==
    \E d \in DeliveryIds :
        /\ deliveries[d].status = "abandoned"
        /\ history[d].attempts >= 1
        /\ retry_pc = "loop"
        /\ retry_queue # <<>>

\* C3: a Delivery whose every HTTP attempt failed, and for which no further
\* attempt is queued, scheduled or in flight, has had exactly max_attempts
\* attempts and has status abandoned.
AllFailedAbandoned ==
    \A d \in DeliveryIds :
        (/\ history[d].attempts >= 1
         /\ history[d].failures = history[d].attempts
         /\ AtRest(d))
        => /\ history[d].attempts = deliveries[d].max_attempts
           /\ deliveries[d].status = "abandoned"

\* C4: a Delivery whose latest HTTP attempt returned a response with status
\* below 400 has status success.
ResponseOkIsSuccess ==
    \A d \in DeliveryIds : history[d].last = "ok" => deliveries[d].status = "success"

\* does the candidate webhook w qualify for a Delivery of this event
Eligible(w, event_type, event_data) ==
    /\ enabled[w]
    /\ event_type \in Webhook(w).events
    /\ matches_filters(Webhook(w), event_data) = "true"

\* the Deliveries a step created for webhook w
CreatedFor(w) ==
    { d \in (Len(deliveries) + 1)..Len(deliveries') : deliveries'[d].webhook_id = w }

\* C5: a trigger_event call creates exactly one Delivery, pending and on the
\* delivery queue, for each candidate that is enabled, subscribed to the
\* event kind and passes its filters, and none for any other candidate.
DispatchExact ==
    [][\A event_type \in WebhookEvent, event_data \in EventDatas,
          webhooks \in CandidateLists, related_objects \in RelatedObjects :
          trigger_event(event_type, event_data, webhooks, related_objects)
          => \A i \in 1..Len(webhooks) :
                IF Eligible(webhooks[i], event_type, event_data)
                THEN /\ Cardinality(CreatedFor(webhooks[i])) = 1
                     /\ \A d \in CreatedFor(webhooks[i]) :
                           /\ deliveries'[d].status = "pending"
                           /\ d \in SeqToSet(delivery_queue')
                ELSE CreatedFor(webhooks[i]) = {}]_vars

\* C6: while the manager keeps running, every created Delivery eventually
\* has status success or abandoned.
EventuallyTerminal ==
    \A d \in 1..MaxDeliveries :
        (d \in DeliveryIds /\ running)
        ~> (~running \/ (d \in DeliveryIds /\ deliveries[d].status \in Terminal))

\* would webhook w, as the only candidate, get a Delivery from trigger_event
AloneCreates(w, event_type, event_data, related_objects) ==
    Len(trigger_loop(<<w>>, event_type, event_data, related_objects, <<>>, <<>>).deliveries) = 1

\* C7: no error of one candidate reaches the caller of trigger_event, and
\* every candidate that gets a Delivery when it is dispatched alone gets one
\* whatever happens to the other candidates of the call.
CandidateErrorsIsolated ==
    [][\A event_type \in WebhookEvent, event_data \in EventDatas,
          webhooks \in CandidateLists, related_objects \in RelatedObjects :
          trigger_event(event_type, event_data, webhooks, related_objects)
          => /\ ~trigger_raised'
             /\ \A i \in 1..Len(webhooks) :
                   AloneCreates(webhooks[i], event_type, event_data, related_objects)
                   => CreatedFor(webhooks[i]) # {}]_vars

\* C8: no Delivery is in flight at two workers at once.
OneAttemptInFlight ==
    \A w1, w2 \in 1..NumWorkers :
        (/\ workers[w1].pc = "http"
         /\ workers[w2].pc = "http"
         /\ workers[w1].delivery = workers[w2].delivery)
        => w1 = w2

\* C8 witness: a retry of a Delivery is in flight.
OneAttemptInFlightWitness ==
    \E w \in 1..NumWorkers :
        /\ workers[w].pc = "http"
        /\ deliveries[workers[w].delivery].attempt_count >= 1
        /\ history[workers[w].delivery].attempts >= 2

\* C9: when the retry worker takes a Delivery whose webhook is disabled, the
\* Delivery becomes abandoned and is not put on the delivery queue.
DisabledRetryAbandoned ==
    [][(/\ retry_worker_step
        /\ retry_queue # <<>>
        /\ ~enabled[deliveries[Head(retry_queue)].webhook_id])
       => /\ deliveries'[Head(retry_queue)].status = "abandoned"
          /\ Head(retry_queue) \notin SeqToSet(delivery_queue')]_vars

\* C10: within one tick the retry worker takes each scheduled Delivery at
\* most once.
TickExaminesOnce ==
    \A d \in DeliveryIds : examined[d] <= 1

RetryAtIffRetrying ==
    \A d \in DeliveryIds :
        (deliveries[d].next_retry_at # NoKey) <=> (deliveries[d].status = "retrying")

\* C13: the loop body of trigger_event creates a Delivery only for an
\* enabled webhook.
NoDeliveryWhenDisabled ==
    p_outcome = "create" => p_webhook.enabled

\* C13 witness: a disabled webhook that is subscribed to the event and
\* passes its filters was skipped.
NoDeliveryWhenDisabledWitness ==
    /\ p_outcome = "skip"
    /\ ~p_webhook.enabled
    /\ "case.created" \in p_webhook.events
    /\ p_match = "true"
    /\ p_event_data.json = "ok"
    /\ p_webhook.case_filter.keys # {}

\* C14: for a webhook with a secret, the signature header of a built request
\* is the HMAC of the secret over the request_body of that request.
SignatureCoversBody ==
    \A i \in 1..Len(p_built) :
        p_webhook.secret # ""
        => /\ "X-CHawk-Signature" \in DOMAIN p_built[i].request.request_headers
           /\ p_built[i].request.request_headers["X-CHawk-Signature"]
                = generate_signature(p_webhook.secret, p_built[i].request.request_body)

\* C15: two builds of the request for the same webhook and event are equal.
BuildIdempotent ==
    Len(p_built) = 2 => p_built[1].request = p_built[2].request

\* C16: with a tag filter as the only filter and an event that carries a
\* case, an empty required-tag list lets the event pass and a non-empty one
\* excludes it exactly when no required tag is among the event's tags.
TagFilterSemantics ==
    (/\ p_match # "none"
     /\ p_webhook.organization_filter = {}
     /\ p_webhook.case_filter.keys = {"tags"}
     /\ p_event_data.case = "dict")
    => p_match = IF p_webhook.case_filter.tags = {} THEN "true"
                 ELSE IF p_webhook.case_filter.tags \cap p_event_data.tags = {} THEN "false"
                 ELSE "true"

\* C17: a status (severity) filter does not exclude an event whose case has
\* no status (severity), and a webhook without filters matches every event.
MissingDimensionPasses ==
    (p_match # "none" /\ p_webhook.organization_filter = {})
    => /\ (/\ p_webhook.case_filter.keys = {"status"}
           /\ p_event_data.case = "dict"
           /\ p_event_data.status = "None") => p_match = "true"
       /\ (/\ p_webhook.case_filter.keys = {"severity"}
           /\ p_event_data.case = "dict"
           /\ p_event_data.severity = "None") => p_match = "true"
       /\ p_webhook.case_filter.keys = {} => p_match = "true"

\* C18: the event-kind, delivery-id and signature headers of a built request
\* have the values _build_headers computes, whatever custom_headers holds.
ReservedHeadersKept ==
    \A i \in 1..Len(p_built) :
        LET headers == p_built[i].request.request_headers
        IN  /\ headers["X-CHawk-Event"] = <<"">>
            /\ headers["X-CHawk-Delivery"] = <<ToString(p_built[i].at)>>
            /\ p_webhook.secret # ""
               => headers["X-CHawk-Signature"]
                    = generate_signature(p_webhook.secret,
                                         json_dumps(event_tokens(p_event_data), FALSE))

\* C19: when the build of an eligible candidate raises inside a
\* trigger_event call that returns, a Delivery with status failed exists for
\* that candidate and is not on the delivery queue.
BuildFailureRecorded ==
    [][\A event_type \in WebhookEvent, event_data \in EventDatas,
          webhooks \in CandidateLists, related_objects \in RelatedObjects :
          (trigger_event(event_type, event_data, webhooks, related_objects)
           /\ ~trigger_raised')
          => \A i \in 1..Len(webhooks) :
                (/\ Eligible(webhooks[i], event_type, event_data)
                 /\ \/ build_headers_raises(Webhook(webhooks[i]), event_data)
                    \/ build_payload_raises(Webhook(webhooks[i]), event_data))
                => \E d \in CreatedFor(webhooks[i]) :
                      /\ deliveries'[d].status = "failed"
                      /\ d \notin SeqToSet(delivery_queue')]_vars

\* C20: while the manager is running every delivery worker is alive,
\* whatever exceptions the Deliveries it processed have raised.
WorkersStayAlive ==
    running => \A w \in 1..NumWorkers : workers[w].pc \in {"get", "http"}

\* C20 witness: _update_delivery_failure raised KeyError on a Delivery
\* without attempt_count, and the worker that ran it waits for the next one.
WorkersStayAliveWitness ==
    /\ running
    /\ \E d \in DeliveryIds :
          /\ history[d].last = "error"
          /\ deliveries[d].attempt_count = NoKey
          /\ d \notin InFlight
    /\ \E w \in 1..NumWorkers : workers[w].pc = "http"

\* an attempt of the Delivery was under way when stop() cancelled its worker
CutByStop(d) == history[d].attempts >= 1 /\ history[d].last = "none" /\ AtRest(d)

\* the last instant the wall clock reaches
LastInstant == (MaxTime \div TimeStep) * TimeStep

\* the Delivery waits in a queue, and a tick of the retry worker that can
\* move it falls within the instants that are explored
WaitsWithinHorizon(d) ==
    \/ d \in Queued
    \/ /\ d \in Scheduled
       /\ retry_due(deliveries[d], LastInstant)
       /\ retry_pc = "loop" \/ (retry_pc = "sleep" /\ wake_at <= LastInstant)

\* the retry worker holds the event loop at the last instant that is explored,
\* on a Delivery that is due later
BeyondHorizon ==
    now = LastInstant /\ \E e \in Scheduled : ~retry_due(deliveries[e], LastInstant)

\* C21: stop() and start() leave both queues and every Delivery as they are,
\* and while the manager runs a Delivery that waits in the delivery queue or
\* the retry queue (after a restart as well) is eventually taken by a worker.
QueuedSurvivesRestart ==
    /\ [][(stop \/ start)
          => /\ delivery_queue' = delivery_queue
             /\ retry_queue' = retry_queue
             /\ deliveries' = deliveries]_vars
    /\ \A d \in 1..MaxDeliveries :
          (running /\ d \in DeliveryIds /\ WaitsWithinHorizon(d))
          ~> (~running \/ d \in InFlight \/ BeyondHorizon)

\* C21 witness: a Delivery that failed before stop() cancelled the attempt of
\* a younger one waited in a queue over the stop() and the start(), and its
\* second attempt is in flight.
QueuedSurvivesRestartWitness ==
    /\ running
    /\ \E d, e \in DeliveryIds :
          /\ d < e
          /\ CutByStop(e)
          /\ history[e].attempts = 1
          /\ d \in InFlight
          /\ history[d].attempts = 2

\* C22: the attempt a worker has in flight ends only with a response or with
\* an exception of the request, which _deliver_webhook records on the
\* Delivery; stop() does not end it.
InFlightEndsByOutcome ==
    [][\A w \in 1..NumWorkers :
          (workers[w].pc = "http" /\ workers'[w].pc # "http")
          => \/ deliver_webhook_error(w)
             \/ \E status_code \in {200, 500} : deliver_webhook_response(w, status_code)]_vars

\* the Deliveries of webhook w that a worker completed with a response below 400
Succeeded(w) ==
    { d \in DeliveryIds : deliveries[d].webhook_id = w /\ history[d].last = "ok" /\ AtRest(d) }

\* the Deliveries of webhook w that a worker abandoned
Abandoned(w) ==
    { d \in DeliveryIds : deliveries[d].webhook_id = w /\ deliveries[d].status = "abandoned" }

\* C23: total_sent of a webhook is the number of its Deliveries completed
\* successfully and total_failed the number of its abandoned Deliveries.
StatsCountOutcomes ==
    \A w \in WebhookIds :
        /\ total_sent[w] = Cardinality(Succeeded(w))
        /\ total_failed[w] = Cardinality(Abandoned(w))

\* C24: when the n-th attempt of a Delivery fails and attempts remain,
\* next_retry_at becomes the failure time plus min(base * 2^(n-1), cap),
\* base being the retry_backoff of the Delivery's webhook and cap 3600.
BackoffFromWebhook ==
    [][\A w \in 1..NumWorkers :
          (deliver_webhook_error(w) /\ deliveries'[workers[w].delivery].status = "retrying")
          => LET dl == deliveries'[workers[w].delivery]
                 base == Webhook(dl.webhook_id).retry_backoff
             IN  /\ dl.next_retry_at = now + Min(base * Pow2(dl.attempt_count - 1), BackoffCap)
                 /\ dl.next_retry_at - now <= BackoffCap]_vars

\* has the next_retry_at of the Delivery elapsed
Elapsed(d) == deliveries[d].next_retry_at # NoKey /\ now >= deliveries[d].next_retry_at

\* C25: the retry worker moves a Delivery it takes from the retry queue to
\* the delivery queue when its next_retry_at has elapsed and leaves it
\* scheduled otherwise; when its tick ends no Delivery whose next_retry_at has
\* elapsed is left behind; a failed attempt sets next_retry_at later than the
\* failure and no worker starts a retry before it, so the attempt times of a
\* Delivery increase strictly.
RetryOnlyWhenDue ==
    [][/\ (retry_worker_step /\ retry_queue # <<>>)
          => LET d == Head(retry_queue)
             IN  IF Elapsed(d)
                 THEN /\ delivery_queue' = Append(delivery_queue, d)
                      /\ d \notin SeqToSet(retry_queue')
                 ELSE /\ delivery_queue' = delivery_queue
                      /\ d \in SeqToSet(retry_queue')
       /\ (retry_pc = "loop" /\ retry_pc' = "sleep")
          => \A d \in SeqToSet(retry_queue') : ~Elapsed(d)
       /\ \A w \in 1..NumWorkers :
             /\ (deliver_webhook_error(w)
                 /\ deliveries'[workers[w].delivery].status = "retrying")
                => deliveries'[workers[w].delivery].next_retry_at > now
             /\ (delivery_worker_get(w)
                 /\ deliveries[Head(delivery_queue)].next_retry_at # NoKey)
                => now >= deliveries[Head(delivery_queue)].next_retry_at]_vars

\* C25 witness: within a tick the retry worker has moved a Delivery that was
\* due and has left scheduled one that is not.
RetryOnlyWhenDueWitness ==
    /\ retry_pc = "loop"
    /\ examined # [d \in 1..MaxDeliveries |-> 0]
    /\ \E d \in Queued : Elapsed(d) /\ deliveries[d].attempt_count >= 1
    /\ \E e \in Scheduled : ~Elapsed(e)

\* the status changes of the Delivery state machine
StatusChanges ==
    { <<"pending", "sending">>, <<"sending", "success">>, <<"sending", "retrying">>,
      <<"sending", "abandoned">>, <<"retrying", "sending">> }

\* C26: every step that changes the status of a Delivery makes one of the
\* changes of the state machine, and a Delivery whose HTTP attempt is in
\* flight has status sending.
StatusMachine ==
    [][\A d \in DeliveryIds :
          /\ deliveries'[d].status # deliveries[d].status
             => <<deliveries[d].status, deliveries'[d].status>> \in StatusChanges
          /\ d \in InFlight' => deliveries'[d].status = "sending"]_vars

\* how many times the Delivery occurs in a queue
Occurrences(q, d) == Cardinality({ i \in 1..Len(q) : q[i] = d })

\* C28: a Delivery occurs at most once across the delivery queue, the retry
\* queue and the attempts in flight at the workers.
NoDuplicateEntries ==
    \A d \in DeliveryIds :
        Occurrences(delivery_queue, d) + Occurrences(retry_queue, d)
            + Cardinality({ w \in 1..NumWorkers :
                              workers[w].pc = "http" /\ workers[w].delivery = d }) <= 1

\* C28 witness: a Delivery whose attempt failed went through the retry queue
\* and a tick of the retry worker, which has ended, and waits in the
\* delivery queue again.
NoDuplicateEntriesWitness ==
    /\ retry_pc = "sleep"
    /\ \E d \in Queued :
          /\ deliveries[d].attempt_count >= 1
          /\ history[d].failures >= 1
          /\ deliveries[d].status = "pending"

\* C30: every Delivery in the delivery queue has status pending, and every
\* Delivery in the retry queue has status retrying and a next_retry_at.
QueueStatusConsistent ==
    /\ \A d \in Queued : deliveries[d].status = "pending"
    /\ \A d \in Scheduled :
          /\ deliveries[d].status = "retrying"
          /\ deliveries[d].next_retry_at # NoKey

\* C30 witness: the delivery queue holds a Delivery that the retry worker
\* re-enqueued while the retry queue holds another one.
QueueStatusConsistentWitness ==
    /\ LoopFree
    /\ \E d \in Queued : deliveries[d].next_retry_at # NoKey
    /\ \E e \in Scheduled : deliveries[e].attempt_count >= 1

\* C27: no step changes the request fields of a delivery dict, and every
\* attempt hands to session.request the url, method, headers and body that
\* were rendered when the Delivery was created.
RequestFrozen ==
    [][/\ \A d \in DeliveryIds : request_sent(deliveries'[d]) = request_sent(deliveries[d])
       /\ \A w \in 1..NumWorkers :
             delivery_worker_get(w)
             => request_sent(deliveries[Head(delivery_queue)]) = rendered[Head(delivery_queue)]]_vars

\* C27 witness: the third attempt of a signed Delivery is in flight at a
\* later clock reading than its creation.
RequestFrozenWitness ==
    \E w \in 1..NumWorkers :
        /\ workers[w].pc = "http"
        /\ history[workers[w].delivery].attempts = 3
        /\ deliveries[workers[w].delivery].attempt_count = 2
        /\ "X-CHawk-Signature" \in DOMAIN rendered[workers[w].delivery].headers
        /\ rendered[workers[w].delivery].headers["X-CHawk-Delivery"] # <<ToString(now)>>

\* C29: every live worker task is in self.workers; when a stop() call
\* returns no worker task is alive; after a start() call at most num_workers
\* delivery workers and one retry worker are alive.
WorkersTracked ==
    [][/\ Live' \subseteq SeqToSet(self_workers')
       /\ (stop_return \/ (stop_cancel /\ stop_pc' = "idle")) => Live' = {}
       /\ start_tasks
          => Cardinality({ t \in TaskIds : tasks'[t] = "alive" }) <= TasksPerStart]_vars

TypeOK ==
    /\ running \in BOOLEAN
    /\ Len(deliveries) <= MaxDeliveries
    /\ Len(history) = Len(deliveries)
    /\ \A d \in DeliveryIds : deliveries[d].status \in WebhookStatus
=============================================================================
